---------------------------- MODULE Spec2Model ----------------------------
(***************************************************************************)
(* Model of solutions/phase-05/tools.py: the get_weather tool.            *)
(*                                                                         *)
(* Several get_weather calls run on the threads of a host process.  They   *)
(* share the process environment (WEATHER_API_KEY), which the host may     *)
(* change at any time.  Each call reads the key, sends one GET request     *)
(* over its own connection, gets the provider's answer (a response or a    *)
(* transport failure) and turns it into the returned string.               *)
(*                                                                         *)
(* A Python string is modelled as a sequence of text segments: the         *)
(* literal pieces of an f-string and the rendered values between them.     *)
(* The string is the concatenation of its segments.  Characters outside    *)
(* ASCII are written [U+xxxx].  An optional value (None or a value) is     *)
(* the empty sequence or a one-element sequence.                           *)
(***************************************************************************)
EXTENDS Integers, Sequences, FiniteSets, TLC

\* Bound: the number of get_weather calls the host starts in one run.
MaxCalls == 3

\* The host's threads that call the tool.
Threads == {"t1", "t2"}

\* The city arguments the agent passes.
Cities == {"", "Paris"}

\* The keys the host sets WEATHER_API_KEY to, besides leaving it unset,
\* empty or at the placeholder.
RealKeys == {"k1"}

None == <<>>
Some(v) == <<v>>

-----------------------------------------------------------------------------
(* Literals of the source *)

EnvName == "WEATHER_API_KEY"
Placeholder == "your_weather_api_key_here"
Url == "http://api.weatherapi.com/v1/current.json"
Timeout == 10
BadRequestCode == 400

ConfigErrorText ==
    "Error: Weather API key not configured. Please add WEATHER_API_KEY to your .env file."
NotFoundPrefix == "Sorry, I couldn't find weather data for '"
NotFoundSuffix == "'. Please check the city name."
FetchErrorPrefix == "Error fetching weather: "
NetworkErrorPrefix == "Network error: Could not connect to weather service. "
UnexpectedPrefix == "Unexpected error: "
ReportHeader == "Weather for "

-----------------------------------------------------------------------------
(* JSON values, as response.json() yields them: dict, str, int, float,     *)
(* None, list.  A float is its integer part and one decimal digit.         *)

JObj(f) == [t |-> "obj", v |-> f]
JStr(s) == [t |-> "str", s |-> s]
JInt(n) == [t |-> "int", n |-> n]
JFloat(i, f) == [t |-> "float", i |-> i, f |-> f]
JNull == [t |-> "null"]
JList == [t |-> "list"]

\* str(value), as an f-string field renders it.
PyStr(val) ==
    CASE val.t = "str" -> val.s
      [] val.t = "int" -> ToString(val.n)
      [] val.t = "float" -> ToString(val.i) \o "." \o ToString(val.f)
      [] val.t = "null" -> "None"
      [] val.t = "list" -> "[]"

-----------------------------------------------------------------------------
(* Exceptions: the classes that can be raised inside the try block, with   *)
(* the base class of each.                                                 *)

BaseOf ==
    [ HTTPStatusError  |-> "HTTPError",
      RequestError     |-> "HTTPError",
      HTTPError        |-> "Exception",
      TransportError   |-> "RequestError",
      DecodingError    |-> "RequestError",
      TimeoutException |-> "TransportError",
      NetworkError     |-> "TransportError",
      ConnectTimeout   |-> "TimeoutException",
      ReadTimeout      |-> "TimeoutException",
      ConnectError     |-> "NetworkError",
      JSONDecodeError  |-> "ValueError",
      ValueError       |-> "Exception",
      KeyError         |-> "LookupError",
      LookupError      |-> "Exception",
      TypeError        |-> "Exception",
      AttributeError   |-> "Exception",
      Exception        |-> "BaseException" ]

RECURSIVE IsSubclass(_, _)
IsSubclass(cls, base) ==
    \/ cls = base
    \/ /\ cls \in DOMAIN BaseOf
       /\ IsSubclass(BaseOf[cls], base)

\* An exception object: its class, str(e) and, for an HTTPStatusError,
\* e.response.status_code.
Exc(cls, msg, status) == [cls |-> cls, msg |-> msg, status |-> status]

Ok(val) == [ok |-> TRUE, val |-> val]
Raise(e) == [ok |-> FALSE, exc |-> e]

-----------------------------------------------------------------------------
(* The provider and the transport: what httpx.get can come back with.      *)

\* A body that json() parses to doc, and one that it cannot parse.
JsonBody(doc) == [json |-> TRUE, doc |-> doc]
TextBody(text) == [json |-> FALSE, text |-> text]

Response(status, content) ==
    [kind |-> "response", status |-> status, content |-> content]
Failure(e) == [kind |-> "failure", exc |-> e]

\* The payload of the provider's documentation ...
ParisDoc ==
    JObj([ location |-> JObj([name |-> JStr("Paris"), country |-> JStr("France")]),
           current  |-> JObj([ temp_c    |-> JInt(15),
                               temp_f    |-> JInt(59),
                               condition |-> JObj([text |-> JStr("Partly cloudy")]),
                               humidity  |-> JInt(70),
                               wind_kph  |-> JInt(12) ]) ])

\* ... and one with fractional readings and a null.
LondonDoc ==
    JObj([ location |-> JObj([name |-> JStr("London"), country |-> JStr("United Kingdom")]),
           current  |-> JObj([ temp_c    |-> JFloat(11, 5),
                               temp_f    |-> JFloat(52, 7),
                               condition |-> JObj([text |-> JStr("Light rain")]),
                               humidity  |-> JInt(82),
                               wind_kph  |-> JNull ]) ])

\* The provider's error document.
ErrorDoc ==
    JObj([error |-> JObj([code |-> JInt(1006),
                          message |-> JStr("No matching location found.")])])

\* The seven fields get_weather reads, in the order it reads them.
FieldPaths ==
    << <<"location", "name">>,
       <<"location", "country">>,
       <<"current", "temp_c">>,
       <<"current", "temp_f">>,
       <<"current", "condition", "text">>,
       <<"current", "humidity">>,
       <<"current", "wind_kph">> >>

\* doc without the member at path.
RECURSIVE Without(_, _)
Without(doc, path) ==
    LET k == Head(path)
        rest == Tail(path)
    IN  IF rest = <<>>
        THEN JObj([x \in DOMAIN doc.v \ {k} |-> doc.v[x]])
        ELSE JObj([x \in DOMAIN doc.v |->
                      IF x = k THEN Without(doc.v[x], rest) ELSE doc.v[x]])

\* doc with the member at a one-key path replaced.
With(doc, k, val) == JObj([x \in DOMAIN doc.v |-> IF x = k THEN val ELSE doc.v[x]])

SuccessBodies ==
    {JsonBody(ParisDoc), JsonBody(LondonDoc)}
    \cup {JsonBody(Without(ParisDoc, FieldPaths[i])) : i \in DOMAIN FieldPaths}
    \cup { JsonBody(ErrorDoc),
           JsonBody(With(ParisDoc, "current", JStr("n/a"))),
           JsonBody(JList),
           TextBody("<html>Service Unavailable</html>"),
           TextBody("") }

SuccessStatuses == {200}
ErrorStatuses == {301, 400, 401, 403, 404, 500}

\* Failures of the transport before a response is obtained: no connection
\* (refused, or no address for the host), no answer within the timeout.
ConnectFailures ==
    { Exc("ConnectError", <<"[Errno 111] Connection refused">>, None),
      Exc("ConnectError", <<"[Errno -2] Name or service not known">>, None),
      Exc("ReadTimeout", <<"The read operation timed out">>, None) }

\* A failure after the status line: the body cannot be decoded under its
\* Content-Encoding.  httpx.get reads the body, and raises.
BodyFailures ==
    { Exc("DecodingError",
          <<"Error -3 while decompressing data: incorrect header check">>, None) }

ProviderResponses ==
    {Response(s, b) : s \in SuccessStatuses, b \in SuccessBodies}
    \cup {Response(s, JsonBody(ErrorDoc)) : s \in ErrorStatuses}

-----------------------------------------------------------------------------
(* The steps of the try block, as pure functions. *)

\* A faulty variant of Params: an empty city is replaced by a default query.
ParamsDefaultCity(api_key, city) ==
    [key |-> api_key, q |-> IF city = "" THEN "auto:ip" ELSE city, aqi |-> "no"]

\* params of line 51.
Params(api_key, city) == [key |-> api_key, q |-> city, aqi |-> "no"]

\* The request of line 53.
Request(api_key, city) ==
    [method |-> "GET", url |-> Url, params |-> Params(api_key, city),
     timeout |-> Timeout]

\* response.is_success
IsSuccess(status) == status >= 200 /\ status <= 299

ErrorType(status) ==
    CASE status \div 100 = 1 -> "Informational response"
      [] status \div 100 = 3 -> "Redirect response"
      [] status \div 100 = 4 -> "Client error"
      [] status \div 100 = 5 -> "Server error"
      [] OTHER -> "Invalid status code"

\* response.raise_for_status(): the message names the status and the URL
\* (the query string of the URL is left out).
RaiseForStatus(response) ==
    IF IsSuccess(response.status)
    THEN Ok(response)
    ELSE Raise(Exc("HTTPStatusError",
                   <<ErrorType(response.status), " '", ToString(response.status),
                     "' for url '", Url, "'">>,
                   Some(response.status)))

\* response.json()
Json(response) ==
    IF response.content.json
    THEN Ok(response.content.doc)
    ELSE Raise(Exc("JSONDecodeError",
                   <<"Expecting value: line 1 column 1 (char 0)">>, None))

\* A faulty variant of GetItem: obj.get(k), which yields None for a missing
\* key instead of raising.
GetItemOrNone(obj, k) ==
    IF obj.t = "obj"
    THEN IF k \in DOMAIN obj.v THEN Ok(obj.v[k]) ELSE Ok(JNull)
    ELSE Raise(Exc("AttributeError", <<"object has no attribute 'get'">>, None))

\* obj[k] for a str key k.
GetItem(obj, k) ==
    CASE obj.t = "obj" ->
           IF k \in DOMAIN obj.v
           THEN Ok(obj.v[k])
           ELSE Raise(Exc("KeyError", <<"'", k, "'">>, None))
      [] obj.t = "str" ->
           Raise(Exc("TypeError", <<"string indices must be integers, not 'str'">>, None))
      [] obj.t = "list" ->
           Raise(Exc("TypeError",
                     <<"list indices must be integers or slices, not str">>, None))
      [] obj.t = "null" ->
           Raise(Exc("TypeError", <<"'NoneType' object is not subscriptable">>, None))
      [] OTHER ->
           Raise(Exc("TypeError", <<"'", obj.t, "' object is not subscriptable">>, None))

\* data[k1][k2]...
RECURSIVE GetPath(_, _)
GetPath(val, path) ==
    IF path = <<>>
    THEN Ok(val)
    ELSE LET r == GetItem(val, Head(path))
         IN  IF r.ok THEN GetPath(r.val, Tail(path)) ELSE r

\* Lines 59-65: the seven lookups in order; the first that fails raises.
Extract(data) ==
    LET r == [i \in DOMAIN FieldPaths |-> GetPath(data, FieldPaths[i])]
        failed == {i \in DOMAIN FieldPaths : ~r[i].ok}
    IN  IF failed # {}
        THEN r[CHOOSE i \in failed : \A j \in failed : i <= j]
        ELSE Ok([ location  |-> r[1].val,
                  country   |-> r[2].val,
                  temp_c    |-> r[3].val,
                  temp_f    |-> r[4].val,
                  condition |-> r[5].val,
                  humidity  |-> r[6].val,
                  wind_kph  |-> r[7].val ])

\* A faulty variant of Format: the header shows the city argument instead
\* of the response's location.name.
FormatWithCity(city, f) ==
    << ReportHeader, city, ", ", PyStr(f.country),
       ":\n[U+1F321][U+FE0F] Temperature: ", PyStr(f.temp_c),
       "[U+00B0]C (", PyStr(f.temp_f),
       "[U+00B0]F)\n[U+2601][U+FE0F] Condition: ", PyStr(f.condition),
       "\n[U+1F4A7] Humidity: ", PyStr(f.humidity),
       "%\n[U+1F4A8] Wind: ", PyStr(f.wind_kph), " km/h" >>

\* The f-string of lines 67-71.
Format(city, f) ==
    << ReportHeader, PyStr(f.location), ", ", PyStr(f.country),
       ":\n[U+1F321][U+FE0F] Temperature: ", PyStr(f.temp_c),
       "[U+00B0]C (", PyStr(f.temp_f),
       "[U+00B0]F)\n[U+2601][U+FE0F] Condition: ", PyStr(f.condition),
       "\n[U+1F4A7] Humidity: ", PyStr(f.humidity),
       "%\n[U+1F4A8] Wind: ", PyStr(f.wind_kph), " km/h" >>

\* Lines 53-71: what the try block evaluates to, given what httpx.get
\* came back with.
TryBlock(city, ans) ==
    IF ans.kind = "failure"
    THEN Raise(ans.exc)
    ELSE LET checked == RaiseForStatus(ans)
         IN  IF ~checked.ok
             THEN checked
             ELSE LET data == Json(checked.val)
                  IN  IF ~data.ok
                      THEN data
                      ELSE LET fields == Extract(data.val)
                           IN  IF ~fields.ok
                               THEN fields
                               ELSE Ok(Format(city, fields.val))

-----------------------------------------------------------------------------
(* The except clauses. *)

Returned(text) == [kind |-> "return", value |-> text]
Propagated(e) == [kind |-> "raise", exc |-> e]

\* except httpx.HTTPStatusError
CatchesStatusError(e) == IsSubclass(e.cls, "HTTPStatusError")

\* A faulty variant of CatchesRequestError: except httpx.TimeoutException.
CatchesTimeout(e) == IsSubclass(e.cls, "TimeoutException")

\* except httpx.RequestError
CatchesRequestError(e) == IsSubclass(e.cls, "RequestError")

\* A faulty variant of CatchesException: the catch-all clause is missing.
CatchesNothing(e) == FALSE

\* except Exception
CatchesException(e) == IsSubclass(e.cls, "Exception")

\* A faulty variant of IsBadRequest: the status compared with is 404.
IsNotFoundStatus(e) == e.status = Some(404)

\* e.response.status_code == 400
IsBadRequest(e) == e.status = Some(BadRequestCode)

NotFoundMessage(city) == <<NotFoundPrefix, city, NotFoundSuffix>>
FetchErrorMessage(e) == <<FetchErrorPrefix>> \o e.msg
NetworkErrorMessage(e) == <<NetworkErrorPrefix>> \o e.msg
UnexpectedMessage(e) == <<UnexpectedPrefix>> \o e.msg

\* A faulty variant of ExceptClauses: the catch-all clause comes first.
CatchAllFirst(city, e) ==
    IF CatchesException(e)
    THEN Returned(UnexpectedMessage(e))
    ELSE IF CatchesStatusError(e)
         THEN IF IsBadRequest(e)
              THEN Returned(NotFoundMessage(city))
              ELSE Returned(FetchErrorMessage(e))
         ELSE IF CatchesRequestError(e)
              THEN Returned(NetworkErrorMessage(e))
              ELSE Propagated(e)

\* Lines 73-80: the first clause that matches the exception handles it.
ExceptClauses(city, e) ==
    IF CatchesStatusError(e)
    THEN IF IsBadRequest(e)
         THEN Returned(NotFoundMessage(city))
         ELSE Returned(FetchErrorMessage(e))
    ELSE IF CatchesRequestError(e)
         THEN Returned(NetworkErrorMessage(e))
         ELSE IF CatchesException(e)
              THEN Returned(UnexpectedMessage(e))
              ELSE Propagated(e)

\* Lines 48-80: the outcome of the call once httpx.get has come back.
HandleAnswer(city, ans) ==
    LET r == TryBlock(city, ans)
    IN  IF r.ok THEN Returned(r.val) ELSE ExceptClauses(city, r.exc)

-----------------------------------------------------------------------------
(* The state machine. *)

VARIABLES
    environ,    \* os.environ, restricted to WEATHER_API_KEY
    pc,         \* where each thread is in get_weather
    city,       \* the argument of the thread's call
    api_key,    \* the local of line 43
    inflight,   \* the request each thread's connection carries, if any
    arrived,    \* what httpx.get is about to come back with, if anything
    result,     \* how the call ended: a returned string or a raised exception
    sent,       \* the requests the call has issued so far
    keyAtCall,  \* os.environ when the call executed line 43
    answered,   \* what the network answered to this call's request
    calls       \* the number of calls started

vars == <<environ, pc, city, api_key, inflight, arrived, result, sent,
          keyAtCall, answered, calls>>

\* The environments the host can set up: the variable unset, empty, the
\* placeholder of .env.example, or a key.
Environs ==
    {[x \in {} |-> ""]}
    \cup {[x \in {EnvName} |-> v] : v \in {"", Placeholder} \cup RealKeys}

\* A faulty variant of OsGetenv: the key is read from the environment once
\* and kept; later calls on the thread get the kept value.
CachedGetenv(t, name) ==
    IF api_key[t] # None
    THEN api_key[t][1]
    ELSE IF name \in DOMAIN environ THEN Some(environ[name]) ELSE None

\* os.getenv(name), called on thread t.
OsGetenv(t, name) ==
    IF name \in DOMAIN environ THEN Some(environ[name]) ELSE None

\* A faulty variant of KeyNotConfigured: the placeholder is not checked.
KeyMissing(k) ==
    \/ k = None
    \/ k[1] = ""

\* not api_key or api_key == "your_weather_api_key_here"
KeyNotConfigured(k) ==
    \/ k = None
    \/ k[1] = ""
    \/ k[1] = Placeholder

\* A faulty variant of AnswerFor: the response is kept in a slot the
\* threads share, where another call's answer may sit.
AnswerForAnyone(t) ==
    LET others == {u \in Threads \ {t} : arrived[u] # None}
    IN  IF others # {}
        THEN arrived[CHOOSE u \in others : TRUE][1]
        ELSE arrived[t][1]

\* What the thread's httpx.get comes back with.
AnswerFor(t) == arrived[t][1]

Init ==
    /\ environ \in Environs
    /\ pc = [t \in Threads |-> "idle"]
    /\ city = [t \in Threads |-> None]
    /\ api_key = [t \in Threads |-> None]
    /\ inflight = [t \in Threads |-> None]
    /\ arrived = [t \in Threads |-> None]
    /\ result = [t \in Threads |-> None]
    /\ sent = [t \in Threads |-> <<>>]
    /\ keyAtCall = [t \in Threads |-> None]
    /\ answered = [t \in Threads |-> None]
    /\ calls = 0

\* The host changes WEATHER_API_KEY (load_dotenv, a deployment step).
SetEnv(e) ==
    /\ e # environ
    /\ environ' = e
    /\ UNCHANGED <<pc, city, api_key, inflight, arrived, result, sent,
                   keyAtCall, answered, calls>>

\* The agent calls get_weather(c) on thread t.
Call(t, c) ==
    /\ pc[t] = "idle"
    /\ calls < MaxCalls
    /\ calls' = calls + 1
    /\ pc' = [pc EXCEPT ![t] = "getenv"]
    /\ city' = [city EXCEPT ![t] = Some(c)]
    /\ UNCHANGED <<environ, api_key, inflight, arrived, result, sent,
                   keyAtCall, answered>>

\* Lines 43-46: read the key; without one, return the configuration error.
GetEnv(t) ==
    /\ pc[t] = "getenv"
    /\ LET k == OsGetenv(t, EnvName)
       IN  /\ api_key' = [api_key EXCEPT ![t] = Some(k)]
           /\ IF KeyNotConfigured(k)
              THEN /\ result' = [result EXCEPT ![t] = Some(Returned(<<ConfigErrorText>>))]
                   /\ pc' = [pc EXCEPT ![t] = "done"]
              ELSE /\ pc' = [pc EXCEPT ![t] = "get"]
                   /\ UNCHANGED result
    /\ keyAtCall' = [keyAtCall EXCEPT ![t] = Some(environ)]
    /\ UNCHANGED <<environ, city, inflight, arrived, sent, answered, calls>>

\* Lines 50-53, first half: httpx.get sends the request and blocks.
HttpxGet(t) ==
    /\ pc[t] = "get"
    /\ LET req == Request(api_key[t][1][1], city[t][1])
       IN  /\ inflight' = [inflight EXCEPT ![t] = Some(req)]
           /\ sent' = [sent EXCEPT ![t] = Append(@, req)]
    /\ pc' = [pc EXCEPT ![t] = "waiting"]
    /\ UNCHANGED <<environ, city, api_key, arrived, result, keyAtCall,
                   answered, calls>>

\* The provider answers the request with a response.
Respond(t, r) ==
    /\ inflight[t] # None
    /\ inflight' = [inflight EXCEPT ![t] = None]
    /\ arrived' = [arrived EXCEPT ![t] = Some(r)]
    /\ answered' = [answered EXCEPT ![t] = Some(r)]
    /\ UNCHANGED <<environ, pc, city, api_key, result, sent, keyAtCall, calls>>

\* The transport fails: no connection, no answer within the timeout, or a
\* body that cannot be read.
TransportFails(t, e) ==
    /\ inflight[t] # None
    /\ inflight' = [inflight EXCEPT ![t] = None]
    /\ arrived' = [arrived EXCEPT ![t] = Some(Failure(e))]
    /\ answered' = [answered EXCEPT ![t] = Some(Failure(e))]
    /\ UNCHANGED <<environ, pc, city, api_key, result, sent, keyAtCall, calls>>

\* Lines 53-80, second half: httpx.get comes back, and the rest of the
\* function runs on the thread's own locals up to its return.
Finish(t) ==
    /\ pc[t] = "waiting"
    /\ arrived[t] # None
    /\ result' = [result EXCEPT ![t] = Some(HandleAnswer(city[t][1], AnswerFor(t)))]
    /\ arrived' = [arrived EXCEPT ![t] = None]
    /\ pc' = [pc EXCEPT ![t] = "done"]
    /\ UNCHANGED <<environ, city, api_key, inflight, sent, keyAtCall, answered, calls>>

\* The call returns (or raises) to its caller, who takes the result; the
\* record of the call (its requests, the environment it saw, the answer it
\* got) ends with it.  The code resets nothing: what the locals held stays
\* until the next call assigns them.
Return(t) ==
    /\ pc[t] = "done"
    /\ pc' = [pc EXCEPT ![t] = "idle"]
    /\ result' = [result EXCEPT ![t] = None]
    /\ sent' = [sent EXCEPT ![t] = <<>>]
    /\ keyAtCall' = [keyAtCall EXCEPT ![t] = None]
    /\ answered' = [answered EXCEPT ![t] = None]
    /\ UNCHANGED <<environ, city, api_key, inflight, arrived, calls>>

Next ==
    \/ \E e \in Environs : SetEnv(e)
    \/ \E t \in Threads, c \in Cities : Call(t, c)
    \/ \E t \in Threads : GetEnv(t)
    \/ \E t \in Threads : HttpxGet(t)
    \/ \E t \in Threads, r \in ProviderResponses : Respond(t, r)
    \/ \E t \in Threads, e \in ConnectFailures \cup BodyFailures : TransportFails(t, e)
    \/ \E t \in Threads : Finish(t)
    \/ \E t \in Threads : Return(t)

Spec == Init /\ [][Next]_vars

-----------------------------------------------------------------------------
(* Vocabulary of the properties. *)

Done(t) == pc[t] = "done"

\* The call of thread t returned a string; Text(t) is that string.
HasReturned(t) == Done(t) /\ result[t] # None /\ result[t][1].kind = "return"
Text(t) == result[t][1].value

\* WEATHER_API_KEY in environment env: unset, empty or the placeholder.
Unconfigured(env) ==
    \/ EnvName \notin DOMAIN env
    \/ env[EnvName] \in {"", Placeholder}

\* The call of thread t has read its key, and the environment held a key.
CalledWithKey(t) == keyAtCall[t] # None /\ ~Unconfigured(keyAtCall[t][1])
CalledWithoutKey(t) == keyAtCall[t] # None /\ Unconfigured(keyAtCall[t][1])

\* The six outcome classes, told apart by how the string begins.
OutcomeClasses ==
    {"configuration", "not_found", "fetch_error", "network", "unexpected", "report"}

InClass(text, c) ==
    /\ Len(text) >= 1
    /\ CASE c = "configuration" -> text = <<ConfigErrorText>>
         [] c = "not_found"     -> text[1] = NotFoundPrefix
         [] c = "fetch_error"   -> text[1] = FetchErrorPrefix
         [] c = "network"       -> text[1] = NetworkErrorPrefix
         [] c = "unexpected"    -> text[1] = UnexpectedPrefix
         [] c = "report"        -> text[1] = ReportHeader

ClassesOf(text) == {c \in OutcomeClasses : InClass(text, c)}

Contains(text, segment) == \E i \in DOMAIN text : text[i] = segment

\* The network answered the call of thread t with a response / a 2xx
\* response / a failure.
GotResponse(t) == answered[t] # None /\ answered[t][1].kind = "response"
GotSuccess(t) ==
    GotResponse(t) /\ answered[t][1].status \in 200..299
GotErrorStatus(t) ==
    GotResponse(t) /\ answered[t][1].status \notin 200..299
GotFailure(t) == answered[t] # None /\ answered[t][1].kind = "failure"

\* doc has a member at path, reached through objects only.
RECURSIVE Present(_, _)
Present(doc, path) ==
    \/ path = <<>>
    \/ /\ doc.t = "obj"
       /\ Head(path) \in DOMAIN doc.v
       /\ Present(doc.v[Head(path)], Tail(path))

\* The body of a response carries all seven fields.
WellFormed(content) ==
    /\ content.json
    /\ \A i \in DOMAIN FieldPaths : Present(content.doc, FieldPaths[i])

\* The member of doc at a path that is present.
RECURSIVE Member(_, _)
Member(doc, path) ==
    IF path = <<>> THEN doc ELSE Member(doc.v[Head(path)], Tail(path))

-----------------------------------------------------------------------------
(* C1: get_weather never raises to its caller: whatever the city, the     *)
(* key and the network's answer, a finished call has returned a string,    *)
(* and the string is in exactly one of the six outcome classes.            *)
C1_NeverRaises ==
    \A t \in Threads :
        Done(t) => /\ HasReturned(t)
                   /\ Cardinality(ClassesOf(Text(t))) = 1

\* A call whose try block raised on a 2xx body that is not JSON has ended.
C1_Witness ==
    \E t \in Threads :
        /\ Done(t)
        /\ GotSuccess(t)
        /\ ~answered[t][1].content.json

(* C2: with WEATHER_API_KEY unset, empty or the placeholder, the call      *)
(* returns the fixed configuration-error string, the same for every city,  *)
(* and issues no request.                                                  *)
C2_NoKeyNoRequest ==
    \A t \in Threads :
        CalledWithoutKey(t) =>
            /\ Done(t)
            /\ result[t] = Some(Returned(<<ConfigErrorText>>))
            /\ sent[t] = <<>>
            /\ inflight[t] = None
            /\ arrived[t] = None
            /\ answered[t] = None

\* Two calls with different cities, one under the placeholder and one with
\* the variable unset, have both ended.
C2_Witness ==
    \E t, u \in Threads :
        /\ Done(t) /\ Done(u)
        /\ city[t] # city[u]
        /\ keyAtCall[t] = Some([x \in {EnvName} |-> Placeholder])
        /\ keyAtCall[u] = Some([x \in {} |-> ""])

(* C3: with a key, HTTP 400 gives the "couldn't find weather data"         *)
(* message with the city as passed in; any other non-2xx status gives the  *)
(* "Error fetching weather" message with the status in it, which is never  *)
(* the 400 message.                                                        *)
C3_StatusMessages ==
    \A t \in Threads :
        (Done(t) /\ CalledWithKey(t) /\ GotErrorStatus(t)) =>
            /\ HasReturned(t)
            /\ IF answered[t][1].status = 400
               THEN Text(t) = <<NotFoundPrefix, city[t][1], NotFoundSuffix>>
               ELSE /\ ClassesOf(Text(t)) = {"fetch_error"}
                    /\ Contains(Text(t), ToString(answered[t][1].status))
                    /\ Text(t) # <<NotFoundPrefix, city[t][1], NotFoundSuffix>>

\* One call ended on a 400 for "Paris", another on a redirect.
C3_Witness ==
    \E t, u \in Threads :
        /\ Done(t) /\ GotErrorStatus(t) /\ answered[t][1].status = 400
        /\ city[t] = Some("Paris")
        /\ Done(u) /\ GotErrorStatus(u) /\ answered[u][1].status = 301

(* C4: with a key, a transport failure before any response (no            *)
(* connection, timeout) gives the "Network error" message with the         *)
(* failure's detail, and no other class of message.                        *)
C4_NetworkError ==
    \A t \in Threads :
        (Done(t) /\ CalledWithKey(t) /\ GotFailure(t)
           /\ answered[t][1].exc \in ConnectFailures) =>
            /\ HasReturned(t)
            /\ Text(t) = <<NetworkErrorPrefix>> \o answered[t][1].exc.msg
            /\ ClassesOf(Text(t)) = {"network"}

\* One call ended on a refused connection, another on a timeout.
C4_Witness ==
    \E t, u \in Threads :
        /\ Done(t) /\ GotFailure(t) /\ answered[t][1].exc.cls = "ConnectError"
        /\ Done(u) /\ GotFailure(u) /\ answered[u][1].exc.cls = "ReadTimeout"

(* C5: a 2xx response whose body is not JSON or lacks one of the seven     *)
(* fields gives the "Unexpected error" message; a string that starts with  *)
(* the report header is returned only when all seven fields were there.    *)
C5_NoPartialReport ==
    \A t \in Threads :
        Done(t) =>
            /\ (GotSuccess(t) /\ ~WellFormed(answered[t][1].content)) =>
                   /\ HasReturned(t)
                   /\ ClassesOf(Text(t)) = {"unexpected"}
            /\ (HasReturned(t) /\ Text(t)[1] = ReportHeader) =>
                   /\ GotSuccess(t)
                   /\ WellFormed(answered[t][1].content)

\* A call ended on a 2xx body that lacks only current.wind_kph, the last
\* field read.
C5_Witness ==
    \E t \in Threads :
        /\ Done(t)
        /\ GotSuccess(t)
        /\ answered[t][1].content = JsonBody(Without(ParisDoc, FieldPaths[7]))

(* C6: for a 2xx response with all seven fields, the returned report is    *)
(* the five-line template filled with the response's values, the location  *)
(* being the response's location.name and not the city argument.           *)
C6_ReportFromResponse ==
    \A t \in Threads :
        (Done(t) /\ GotSuccess(t) /\ WellFormed(answered[t][1].content)) =>
            LET doc == answered[t][1].content.doc
                val(i) == PyStr(Member(doc, FieldPaths[i]))
            IN  /\ HasReturned(t)
                /\ Text(t) =
                     << "Weather for ", val(1), ", ", val(2),
                        ":\n[U+1F321][U+FE0F] Temperature: ", val(3),
                        "[U+00B0]C (", val(4),
                        "[U+00B0]F)\n[U+2601][U+FE0F] Condition: ", val(5),
                        "\n[U+1F4A7] Humidity: ", val(6),
                        "%\n[U+1F4A8] Wind: ", val(7), " km/h" >>

\* The call for "Paris" was answered with London's weather, and another
\* call got the payload of the documentation: 15, 59, Partly cloudy, 70, 12.
C6_Witness ==
    \E t, u \in Threads :
        /\ Done(t) /\ city[t] = Some("Paris") /\ GotSuccess(t)
        /\ answered[t][1].content = JsonBody(LondonDoc)
        /\ Done(u) /\ GotSuccess(u)
        /\ answered[u][1].content = JsonBody(ParisDoc)
        /\ Contains(Text(u), "15") /\ Contains(Text(u), "59")
        /\ Contains(Text(u), "Partly cloudy")
        /\ Contains(Text(u), "70") /\ Contains(Text(u), "12")
        /\ Contains(Text(u), "Paris")

(* C7: with a key, a call issues exactly one GET request, with the key,    *)
(* the city unchanged as q and aqi=no, and never a second one, whatever    *)
(* came back.                                                              *)
C7_SingleAttempt ==
    \A t \in Threads :
        /\ Len(sent[t]) <= 1
        /\ (CalledWithKey(t) /\ pc[t] \in {"waiting", "done"}) =>
               /\ Len(sent[t]) = 1
               /\ sent[t][1].method = "GET"
               /\ sent[t][1].url = Url
               /\ sent[t][1].params =
                      [key |-> keyAtCall[t][1][EnvName], q |-> city[t][1], aqi |-> "no"]

\* A call for the empty city ended on a transport failure, another on a
\* server error.
C7_Witness ==
    \E t, u \in Threads :
        /\ Done(t) /\ city[t] = Some("") /\ GotFailure(t)
        /\ Done(u) /\ GotErrorStatus(u) /\ answered[u][1].status = 500

\* Two finished calls with the same city and the same environment at call
\* time issued the same requests, and with the same answer returned the
\* same string.
PairsAgree ==
    \A t, u \in Threads :
        (Done(t) /\ Done(u) /\ city[t] = city[u] /\ keyAtCall[t] = keyAtCall[u]) =>
            /\ sent[t] = sent[u]
            /\ (answered[t] = answered[u] => result[t] = result[u])

\* The key a call works with is the value the environment held when the
\* call read it.
KeyIsFresh ==
    \A t \in Threads :
        keyAtCall[t] # None =>
            api_key[t] = Some(IF EnvName \in DOMAIN keyAtCall[t][1]
                              THEN Some(keyAtCall[t][1][EnvName])
                              ELSE None)

(* C8: get_weather keeps nothing from one call to the next and does not    *)
(* cache the key: the key of a call is the one in the environment when     *)
(* the call reads it, two calls with the same city, key and answer return  *)
(* the same string whatever calls came before, and no step of a call or    *)
(* of the network changes the environment.                                 *)
C8_Stateless ==
    [][ /\ (environ' # environ =>
               UNCHANGED <<pc, city, api_key, inflight, arrived, result, sent,
                           keyAtCall, answered, calls>>)
        /\ KeyIsFresh'
        /\ PairsAgree' ]_vars

\* The third call of the run and an earlier one, made with the same city
\* under the same key, have both ended, and the key has changed since.
C8_Witness ==
    \E t, u \in Threads :
        /\ t # u
        /\ calls = 3
        /\ Done(t) /\ Done(u)
        /\ CalledWithKey(t)
        /\ city[t] = city[u] /\ keyAtCall[t] = keyAtCall[u]
        /\ answered[t] = answered[u]
        /\ environ # keyAtCall[t][1]

(* C9: calls that run interleaved are independent: each returns the        *)
(* result of its own city and of the answer to its own request, and its    *)
(* request carries its own city.                                           *)
C9_Independent ==
    \A t \in Threads :
        /\ inflight[t] # None => inflight[t][1].params.q = city[t][1]
        /\ (Done(t) /\ answered[t] # None) =>
               result[t] = Some(HandleAnswer(city[t][1], answered[t][1]))

\* Two calls with different cities were in progress together, were
\* answered differently, and have both ended.
C9_Witness ==
    \E t, u \in Threads :
        /\ Done(t) /\ Done(u)
        /\ city[t] # city[u]
        /\ GotErrorStatus(t) /\ answered[t][1].status = 400
        /\ GotSuccess(u) /\ WellFormed(answered[u][1].content)

\* The classifier of the specification: transport failure first, then the
\* HTTP status, then the catch-all.
PriorityClassifier(c, e) ==
    IF IsSubclass(e.cls, "RequestError")
    THEN Returned(<<NetworkErrorPrefix>> \o e.msg)
    ELSE IF IsSubclass(e.cls, "HTTPStatusError")
         THEN IF e.status = Some(400)
              THEN Returned(<<NotFoundPrefix, c, NotFoundSuffix>>)
              ELSE Returned(<<FetchErrorPrefix>> \o e.msg)
         ELSE IF IsSubclass(e.cls, "Exception")
              THEN Returned(<<UnexpectedPrefix>> \o e.msg)
              ELSE Propagated(e)

(* C10: for every failure inside the try block, get_weather returns the    *)
(* string of the classifier that checks the transport failure first, then  *)
(* the HTTP status, then the catch-all.                                    *)
C10_PriorityOrder ==
    \A t \in Threads :
        (Done(t) /\ answered[t] # None) =>
            LET tried == TryBlock(city[t][1], answered[t][1])
            IN  ~tried.ok => result[t] = Some(PriorityClassifier(city[t][1], tried.exc))

\* One call has ended on a status error, another on a transport failure
\* or on a malformed body.
C10_Witness ==
    \E t, u \in Threads :
        /\ Done(t) /\ GotErrorStatus(t)
        /\ Done(u) /\ (GotFailure(u) \/ (GotSuccess(u) /\ ~WellFormed(answered[u][1].content)))

=============================================================================
